---- MODULE Spec2Model ----
(***************************************************************************)
(* proxxy: an authenticated WebSocket relay between a console client and   *)
(* the VNC websocket endpoint of a Proxmox VE host.                        *)
(*                                                                         *)
(* The model follows src/src/index.ts (the Bun.serve fetch handler and the *)
(* websocket handlers) and src/src/utils.ts (decryptPayload, the zod       *)
(* schema, constructWebsocketUrl).  A connection is identified by the      *)
(* number of the session that created it: client connection s is the `ws`  *)
(* of session s, upstream connection s is the `pws` that the open handler  *)
(* of session s constructed.                                               *)
(***************************************************************************)
EXTENDS Integers, Sequences, FiniteSets, TLC

\* ------------------------------------------------------------------ bounds

MaxSessions == 2
MaxFrames == 2

Sessions == 1..MaxSessions

\* sockets.get(vmid) of a key that is not in the map (undefined)
NoSocket == 0

\* ------------------------------------------------------------------ state

VARIABLES
  data,        \* data[s]: ws.data of session s, as the request whose validated descriptor it is
               \* (0: none) and the vmid of that descriptor
  client,      \* client[s]: "none" | "open" | "closed", the ServerWebSocket ws
  wsClosed,    \* wsClosed[s]: who closed ws and the (code, reason) given to the close handler
  pws,         \* pws[s]: "none" | "connecting" | "open" | "errored" | "closing" | "closed"
  pwsClosed,   \* pwsClosed[s]: the (code, reason) of the first socket.close(code, reason) on pws s
  sockets,     \* the Map<number, WebSocket>: vmid -> session whose pws is stored, or NoSocket
  recvClient,  \* recvClient[s]: frames the message handler received from client s
  sentUp,      \* sentUp[s]: frames sent on pws s, each with the session whose client it came from
  recvUp,      \* recvUp[s]: frames the message listener of pws s received
  sentClient,  \* sentClient[s]: frames sent on ws s, each with the session whose pws it came from
  closeEvent,  \* closeEvent[s]: the code of the close event of pws s (0: it has not closed)
  lastRequest, \* the request that fetch handled in the last step (0: another handler ran)
  response,    \* the Response fetch returned in the last step (status 0: none)
  env,         \* "set" when process.env.SIGNATURE_KEY is set, to the key of the tests, else "unset"
  call         \* the last call of a function on its own: its name, arguments and result

vars == <<data, client, wsClosed, pws, pwsClosed, sockets,
          recvClient, sentUp, recvUp, sentClient, closeEvent, lastRequest, response, env, call>>

\* ------------------------------------------------------------------ strings and bytes
\* A string is a sequence of characters, a character a one-character string;
\* a Buffer / Uint8Array is a sequence of numbers in 0..255.

\* the printable ASCII characters in code order, from code 32 (space); the
\* grave accent (code 96) is written GRAVE
Ascii == <<
  " ", "!", "\"", "#", "$", "%", "&", "'", "(", ")", "*", "+", ",", "-", ".", "/",
  "0", "1", "2", "3", "4", "5", "6", "7", "8", "9", ":", ";", "<", "=", ">", "?",
  "@", "A", "B", "C", "D", "E", "F", "G", "H", "I", "J", "K", "L", "M", "N", "O",
  "P", "Q", "R", "S", "T", "U", "V", "W", "X", "Y", "Z", "[", "\\", "]", "^", "_",
  "GRAVE", "a", "b", "c", "d", "e", "f", "g", "h", "i", "j", "k", "l", "m", "n", "o",
  "p", "q", "r", "s", "t", "u", "v", "w", "x", "y", "z", "{", "|", "}", "~" >>

\* characters outside printable ASCII: TextDecoder's replacement character,
\* a control character, the byte order mark, a letter of two UTF-8 bytes, a
\* lone surrogate (a code unit that is no character), and any other character
Replacement == "U+FFFD"
Control == "CTL"
ByteOrderMark == "U+FEFF"
EAcute == "U+00E9"
LoneSurrogate == "U+D800"
OtherChar == "U+OTHER"

CharCodeAt(c) == 31 + (CHOOSE i \in 1..Len(Ascii) : Ascii[i] = c)

\* the concatenation of f[lo], ..., f[hi]
RECURSIVE Flatten(_, _, _)
Flatten(f, lo, hi) ==
  IF lo > hi THEN <<>>
  ELSE IF lo = hi THEN f[lo]
  ELSE Flatten(f, lo, (lo + hi) \div 2) \o Flatten(f, ((lo + hi) \div 2) + 1, hi)

\* the UTF-8 bytes of a character; a lone surrogate is encoded as U+FFFD
Utf8(c) ==
  IF c = ByteOrderMark THEN <<239, 187, 191>>
  ELSE IF c = EAcute THEN <<195, 169>>
  ELSE IF c \in {LoneSurrogate, Replacement} THEN <<239, 191, 189>>
  ELSE <<CharCodeAt(c)>>

\* new TextEncoder().encode(str)
TextEncode(str) == Flatten([i \in 1..Len(str) |-> Utf8(str[i])], 1, Len(str))

IsContinuation(b) == b >= 128 /\ b <= 191

\* the length of the well-formed UTF-8 sequence that starts at bytes[i], 0
\* when there is none
Utf8Length(bytes, i) ==
  LET b == bytes[i]
      cont(k) == i + k <= Len(bytes) /\ IsContinuation(bytes[i + k])
  IN IF b < 128 THEN 1
     ELSE IF b >= 194 /\ b <= 223 /\ cont(1) THEN 2
     ELSE IF /\ b >= 224 /\ b <= 239 /\ cont(1) /\ cont(2)
             /\ (b = 224 => bytes[i + 1] >= 160)
             /\ (b = 237 => bytes[i + 1] <= 159) THEN 3
     ELSE IF /\ b >= 240 /\ b <= 244 /\ cont(1) /\ cont(2) /\ cont(3)
             /\ (b = 240 => bytes[i + 1] >= 144)
             /\ (b = 244 => bytes[i + 1] <= 143) THEN 4
     ELSE 0

\* the character of the sequence that starts at bytes[i]; a byte that starts
\* no well-formed sequence becomes U+FFFD
Utf8Char(bytes, i) ==
  LET b == bytes[i]
      n == Utf8Length(bytes, i)
      codePoint == IF n = 2 THEN (b - 192) * 64 + (bytes[i + 1] - 128)
                   ELSE IF n = 3 THEN (b - 224) * 4096 + (bytes[i + 1] - 128) * 64
                                      + (bytes[i + 2] - 128)
                   ELSE 65536
  IN IF n = 0 THEN Replacement
     ELSE IF n = 1 THEN (IF b >= 32 /\ b <= 126 THEN Ascii[b - 31] ELSE Control)
     ELSE IF codePoint = 233 THEN EAcute
     ELSE IF codePoint = 65279 THEN ByteOrderMark
     ELSE IF codePoint = 65533 THEN Replacement
     ELSE OtherChar

\* new TextDecoder().decode(bytes): UTF-8, not fatal, ignoreBOM false: a
\* byte that starts no well-formed sequence becomes U+FFFD, and a byte order
\* mark at the start is dropped
TextDecode(bytes) ==
  LET inside(i) == \E k \in 1..3 : i - k >= 1 /\ Utf8Length(bytes, i - k) > k
      starts == {i \in 1..Len(bytes) : ~inside(i)}
      nth(k) == CHOOSE i \in starts : Cardinality({j \in starts : j <= i}) = k
      chars == [k \in 1..Cardinality(starts) |-> Utf8Char(bytes, nth(k))]
  IN IF chars # <<>> /\ chars[1] = ByteOrderMark THEN Tail(chars) ELSE chars

HexDigits == <<"0", "1", "2", "3", "4", "5", "6", "7", "8", "9", "a", "b", "c", "d", "e", "f">>
UpperHex == <<"0", "1", "2", "3", "4", "5", "6", "7", "8", "9", "A", "B", "C", "D", "E", "F">>

IsHexDigit(c) == \E i \in 1..16 : HexDigits[i] = c \/ UpperHex[i] = c
HexValue(c) == (CHOOSE i \in 1..16 : HexDigits[i] = c \/ UpperHex[i] = c) - 1

\* Buffer.from(bytes).toString("hex")
ToHex(bytes) ==
  [i \in 1..(2 * Len(bytes)) |->
     IF i % 2 = 1 THEN HexDigits[(bytes[(i + 1) \div 2] \div 16) + 1]
     ELSE HexDigits[(bytes[i \div 2] % 16) + 1]]

\* the number of leading pairs of hex digits of str
HexPairs(str) ==
  Cardinality({k \in 1..(Len(str) \div 2) :
                 \A j \in 1..k : IsHexDigit(str[2 * j - 1]) /\ IsHexDigit(str[2 * j])})

\* Buffer.from(str, "hex"): decodes pairs of hex digits and stops, without an
\* error, at the first pair that is not two hex digits; an odd last character
\* is dropped
FromHex(str) ==
  [i \in 1..HexPairs(str) |-> HexValue(str[2 * i - 1]) * 16 + HexValue(str[2 * i])]

\* String.prototype.split(sep) for a one-character separator: every
\* occurrence splits; part k lies between separator k - 1 and separator k
Split(str, sep) ==
  LET at == {i \in 1..Len(str) : str[i] = sep}
      nth(k) == IF k = 0 THEN 0
                ELSE IF k > Cardinality(at) THEN Len(str) + 1
                ELSE CHOOSE i \in at : Cardinality({j \in at : j <= i}) = k
  IN [k \in 1..(Cardinality(at) + 1) |-> SubSeq(str, nth(k - 1) + 1, nth(k) - 1)]

\* String.prototype.startsWith
StartsWith(str, prefix) ==
  Len(str) >= Len(prefix) /\ SubSeq(str, 1, Len(prefix)) = prefix

RECURSIVE Xor(_, _)
Xor(a, b) ==
  IF a = 0 THEN b
  ELSE IF b = 0 THEN a
  ELSE (((a % 2) + (b % 2)) % 2) + 2 * Xor(a \div 2, b \div 2)

\* ------------------------------------------------------------------ AES-256-CBC
\* crypto.subtle is modelled at its interface: the errors it raises, the CBC
\* chaining, the PKCS#7 padding and the block structure are those of
\* AES-CBC; the block cipher itself is replaced by a keyed byte-wise
\* permutation of a block (an invertible function of the block for each key).

BlockSize == 16

Ok(v) == [ok |-> TRUE, value |-> v]
Throw(name, message) == [ok |-> FALSE, error |-> [name |-> name, message |-> message]]

RECURSIVE KeyByte(_, _)
KeyByte(keyBytes, i) ==
  IF i > Len(keyBytes) THEN 0 ELSE (keyBytes[i] + KeyByte(keyBytes, i + BlockSize)) % 256

EncryptBlock(keyBytes, block) ==
  [i \in 1..BlockSize |-> (block[i] + KeyByte(keyBytes, i)) % 256]

DecryptBlock(keyBytes, block) ==
  [i \in 1..BlockSize |-> (block[i] + 256 - KeyByte(keyBytes, i)) % 256]

XorBlock(a, b) == [i \in 1..BlockSize |-> Xor(a[i], b[i])]

\* PKCS#7: n = BlockSize - (length mod BlockSize) bytes of value n are appended
Pad(bytes) ==
  LET n == BlockSize - (Len(bytes) % BlockSize)
  IN bytes \o [i \in 1..n |-> n]

PaddingValid(bytes) ==
  LET n == bytes[Len(bytes)]
  IN /\ n >= 1
     /\ n <= BlockSize
     /\ \A i \in (Len(bytes) - n + 1)..Len(bytes) : bytes[i] = n

Unpad(bytes) == SubSeq(bytes, 1, Len(bytes) - bytes[Len(bytes)])

RECURSIVE CbcEncryptBlocks(_, _, _)
CbcEncryptBlocks(keyBytes, prev, bytes) ==
  IF bytes = <<>> THEN <<>>
  ELSE LET c == EncryptBlock(keyBytes, XorBlock(SubSeq(bytes, 1, BlockSize), prev))
       IN c \o CbcEncryptBlocks(keyBytes, c, SubSeq(bytes, BlockSize + 1, Len(bytes)))

RECURSIVE CbcDecryptBlocks(_, _, _)
CbcDecryptBlocks(keyBytes, prev, bytes) ==
  IF bytes = <<>> THEN <<>>
  ELSE LET c == SubSeq(bytes, 1, BlockSize)
       IN XorBlock(DecryptBlock(keyBytes, c), prev)
          \o CbcDecryptBlocks(keyBytes, c, SubSeq(bytes, BlockSize + 1, Len(bytes)))

\* crypto.subtle.importKey("raw", keyData, {name: "AES-CBC"}, ...): the key data
\* must be 128, 192 or 256 bits long
ImportKey(keyBytes) ==
  IF Len(keyBytes) \in {16, 24, 32} THEN Ok(keyBytes)
  ELSE Throw("DataError", "Invalid key length")

\* crypto.subtle.encrypt({name: "AES-CBC", iv}, key, data)
SubtleEncrypt(iv, keyBytes, bytes) ==
  IF Len(iv) # BlockSize THEN Throw("OperationError", "Invalid IV length")
  ELSE Ok(CbcEncryptBlocks(keyBytes, iv, Pad(bytes)))

\* crypto.subtle.decrypt({name: "AES-CBC", iv}, key, data)
SubtleDecrypt(iv, keyBytes, bytes) ==
  IF Len(iv) # BlockSize THEN Throw("OperationError", "Invalid IV length")
  ELSE IF bytes = <<>> \/ Len(bytes) % BlockSize # 0
  THEN Throw("OperationError", "Invalid data length")
  ELSE LET plain == CbcDecryptBlocks(keyBytes, iv, bytes)
       IN IF PaddingValid(plain) THEN Ok(Unpad(plain))
          ELSE Throw("OperationError", "Invalid padding")

\* encryptPayload of the example backend, with the IV that
\* crypto.getRandomValues drew given as an argument
encryptPayload(payload, iv, signatureKey) ==
  LET key == ImportKey(FromHex(signatureKey))
      encodedPayload == TextEncode(payload)
      encryptedBuffer == SubtleEncrypt(iv, key.value, encodedPayload)
  IN IF ~key.ok THEN key
     ELSE IF ~encryptedBuffer.ok THEN encryptedBuffer
     ELSE Ok(ToHex(iv) \o <<":">> \o ToHex(encryptedBuffer.value))

\* a decryptPayload that looks at the key first
decryptPayload_KeyFirst(payload, signatureKey) ==
  LET parts == Split(payload, ":")
      ivHex == parts[1]
      encryptedHex == IF Len(parts) >= 2 THEN parts[2] ELSE <<>>
      iv == FromHex(ivHex)
      encrypted == FromHex(encryptedHex)
      key == ImportKey(FromHex(signatureKey))
      decrypted == SubtleDecrypt(iv, key.value, encrypted)
  IN IF signatureKey = <<>>
     THEN Throw("Error", "SIGNATURE_KEY environment variable is not set")
     ELSE IF ivHex = <<>> \/ encryptedHex = <<>>
     THEN Throw("Error", "Payload is malformed")
     ELSE IF ~key.ok THEN key
     ELSE IF ~decrypted.ok THEN decrypted
     ELSE Ok(TextDecode(decrypted.value))

\* decryptPayload; signatureKey is process.env.SIGNATURE_KEY, the empty
\* string when the variable is unset
decryptPayload(payload, signatureKey) ==
  LET parts == Split(payload, ":")
      ivHex == parts[1]
      encryptedHex == IF Len(parts) >= 2 THEN parts[2] ELSE <<>>
      iv == FromHex(ivHex)
      encrypted == FromHex(encryptedHex)
      key == ImportKey(FromHex(signatureKey))
      decrypted == SubtleDecrypt(iv, key.value, encrypted)
  IN IF ivHex = <<>> \/ encryptedHex = <<>>
     THEN Throw("Error", "Payload is malformed")
     ELSE IF signatureKey = <<>>
     THEN Throw("Error", "SIGNATURE_KEY environment variable is not set")
     ELSE IF ~key.ok THEN key
     ELSE IF ~decrypted.ok THEN decrypted
     ELSE Ok(TextDecode(decrypted.value))

\* ------------------------------------------------------------------ JSON
\* A JSON value is a number (a fraction num/den with den 1 or 2), a string,
\* null, or an object: its keys in the order of the text, and their values.

Num(n) == [t |-> "number", num |-> n, den |-> 1]
Half(n) == [t |-> "number", num |-> n, den |-> 2]
Str(s) == [t |-> "string", s |-> s]
Null == [t |-> "null"]
Obj(keys, vals) == [t |-> "object", keys |-> keys, vals |-> vals]

\* the property names that occur, as strings
KeyName ==
  [vmid |-> <<"v", "m", "i", "d">>, type |-> <<"t", "y", "p", "e">>, host |-> <<"h", "o", "s", "t">>, node |-> <<"n", "o", "d", "e">>,
   ticket |-> <<"t", "i", "c", "k", "e", "t">>, vncticket |-> <<"v", "n", "c", "t", "i", "c", "k", "e", "t">>, port |-> <<"p", "o", "r", "t">>, extra |-> <<"e", "x", "t", "r", "a">>]

RECURSIVE Decimal(_)
Decimal(n) ==
  IF n < 10 THEN <<Ascii[n + 17]>>
  ELSE Append(Decimal(n \div 10), Ascii[(n % 10) + 17])

Abs(n) == IF n < 0 THEN 0 - n ELSE n

\* String(n) of a number
NumberToString(v) ==
  (IF v.num < 0 THEN <<"-">> ELSE <<>>)
  \o Decimal(Abs(v.num) \div v.den)
  \o (IF Abs(v.num) % v.den = 0 THEN <<>> ELSE <<".", "5">>)

RECURSIVE Stringify(_)
RECURSIVE StringifyMembers(_, _)
\* JSON.stringify(value), for strings without characters that need an escape
Stringify(v) ==
  IF v.t = "number" THEN NumberToString(v)
  ELSE IF v.t = "string" THEN <<"\"">> \o v.s \o <<"\"">>
  ELSE IF v.t = "null" THEN <<"n", "u", "l", "l">>
  ELSE <<"{">> \o StringifyMembers(v, 1) \o <<"}">>

StringifyMembers(v, i) ==
  IF i > Len(v.keys) THEN <<>>
  ELSE (IF i > 1 THEN <<",">> ELSE <<>>)
       \o <<"\"">> \o KeyName[v.keys[i]] \o <<"\"", ":">>
       \o Stringify(v.vals[v.keys[i]])
       \o StringifyMembers(v, i + 1)

\* ------------------------------------------------------------------ websocketDataSchema

Shape == <<"vmid", "type", "host", "node", "ticket", "vncticket", "port">>
ShapeKeys == {Shape[i] : i \in 1..Len(Shape)}

Issue(code, path) == [code |-> code, path |-> path]

IsAlnum(c) ==
  \E i \in 1..Len(Ascii) :
    /\ Ascii[i] = c
    /\ \/ (i + 31 >= 48 /\ i + 31 <= 57)
       \/ (i + 31 >= 65 /\ i + 31 <= 90)
       \/ (i + 31 >= 97 /\ i + 31 <= 122)

IsLabel(l) ==
  /\ Len(l) >= 1
  /\ Len(l) <= 63
  /\ IsAlnum(l[1])
  /\ IsAlnum(l[Len(l)])
  /\ \A i \in 1..Len(l) : IsAlnum(l[i]) \/ l[i] = "-"

\* the regular expression of z4.hostname(): labels of letters, digits and
\* hyphens that neither start nor end with a hyphen, separated by dots, an
\* optional last dot, at most 253 characters before it
IsHostname(str) ==
  LET body == IF str # <<>> /\ str[Len(str)] = "." THEN SubSeq(str, 1, Len(str) - 1) ELSE str
      labels == Split(body, ".")
  IN /\ Len(body) >= 1
     /\ Len(body) <= 253
     /\ \A i \in 1..Len(labels) : IsLabel(labels[i])

Has(json, k) == \E i \in 1..Len(json.keys) : json.keys[i] = k

\* a check of the guest identifier that lets zero through
vmidIssues_AllowZero(json) ==
  IF ~Has(json, "vmid") \/ json.vals["vmid"].t # "number"
  THEN <<Issue("invalid_type", <<"vmid">>)>>
  ELSE (IF json.vals["vmid"].den # 1 THEN <<Issue("invalid_type", <<"vmid">>)>> ELSE <<>>)
       \o (IF json.vals["vmid"].num < 0 THEN <<Issue("too_small", <<"vmid">>)>> ELSE <<>>)

\* the issues of one property of the shape
vmidIssues(json) ==
  IF ~Has(json, "vmid") \/ json.vals["vmid"].t # "number"
  THEN <<Issue("invalid_type", <<"vmid">>)>>
  ELSE (IF json.vals["vmid"].den # 1 THEN <<Issue("invalid_type", <<"vmid">>)>> ELSE <<>>)
       \o (IF json.vals["vmid"].num <= 0 THEN <<Issue("too_small", <<"vmid">>)>> ELSE <<>>)

\* a check of the guest type that lets any string through
typeIssues_AnyString(json) ==
  IF /\ Has(json, "type")
     /\ json.vals["type"].t = "string"
  THEN <<>>
  ELSE <<Issue("invalid_value", <<"type">>)>>

typeIssues(json) ==
  IF /\ Has(json, "type")
     /\ json.vals["type"].t = "string"
     /\ json.vals["type"].s \in {<<"q", "e", "m", "u">>, <<"l", "x", "c">>}
  THEN <<>>
  ELSE <<Issue("invalid_value", <<"type">>)>>

hostnameIssues(json, k) ==
  IF ~Has(json, k) \/ json.vals[k].t # "string" THEN <<Issue("invalid_type", <<k>>)>>
  ELSE IF ~IsHostname(json.vals[k].s) THEN <<Issue("invalid_format", <<k>>)>>
  ELSE <<>>

stringIssues(json, k) ==
  IF ~Has(json, k) \/ json.vals[k].t # "string" THEN <<Issue("invalid_type", <<k>>)>>
  ELSE <<>>

portIssues(json) ==
  IF Has(json, "port") /\ json.vals["port"].t \in {"string", "number"} THEN <<>>
  ELSE <<Issue("invalid_union", <<"port">>)>>

\* websocketDataSchema.parseAsync(json): the parsed data (the properties of
\* the shape; other properties are stripped) or a ZodError with its issues
websocketDataSchema(json) ==
  IF json.t # "object"
  THEN [ok |-> FALSE,
        error |-> [name |-> "ZodError", issues |-> <<Issue("invalid_type", <<>>)>>]]
  ELSE LET issues == vmidIssues(json) \o typeIssues(json)
                     \o hostnameIssues(json, "host") \o hostnameIssues(json, "node")
                     \o stringIssues(json, "ticket") \o stringIssues(json, "vncticket")
                     \o portIssues(json)
       IN IF issues = <<>> THEN Ok([k \in ShapeKeys |-> json.vals[k]])
          ELSE [ok |-> FALSE, error |-> [name |-> "ZodError", issues |-> issues]]

\* ------------------------------------------------------------------ sample descriptors

validQemu ==
  Obj(Shape,
      [vmid |-> Num(1000), type |-> Str(<<"q", "e", "m", "u">>), host |-> Str(<<"p", "v", "e", "0", "1", ".", "e", "x", "a", "m", "p", "l", "e", ".", "c", "o", "m">>), node |-> Str(<<"p", "v", "e", "0", "1">>),
       ticket |-> Str(<<"P", "V", "E", "A", "P", "I", "T", "o", "k", "e", "n", "=", "t", "e", "s", "t">>), vncticket |-> Str(<<"v", "n", "c", "-", "t", "i", "c", "k", "e", "t">>),
       port |-> Num(5900)])

validLxc ==
  Obj(Shape,
      [vmid |-> Num(2000), type |-> Str(<<"l", "x", "c">>), host |-> Str(<<"p", "v", "e", "0", "2", ".", "e", "x", "a", "m", "p", "l", "e", ".", "c", "o", "m">>), node |-> Str(<<"p", "v", "e", "0", "2">>),
       ticket |-> Str(<<"P", "V", "E", "A", "u", "t", "h", "C", "o", "o", "k", "i", "e", "=", "t", "e", "s", "t", "-", "c", "o", "o", "k", "i", "e">>), vncticket |-> Str(<<"v", "n", "c", "-", "t", "i", "c", "k", "e", "t">>),
       port |-> Str(<<"5", "9", "0", "1">>)])

With(json, k, v) == [json EXCEPT !.vals[k] = v]

Without(json, k) ==
  [json EXCEPT !.keys = SelectSeq(json.keys, LAMBDA x : x # k),
               !.vals = [x \in (DOMAIN json.vals) \ {k} |-> json.vals[x]]]

WithExtra(json) ==
  Obj(Append(json.keys, "extra"),
      [x \in (DOMAIN json.vals) \cup {"extra"} |->
         IF x = "extra" THEN Num(1) ELSE json.vals[x]])

ValidDocs == {validQemu, validLxc}

\* the JSON values of the requests: the two valid descriptors, then values the
\* schema rejects
DocSeq ==
  << validQemu,
     validLxc,
     WithExtra(validLxc),
     With(validQemu, "vmid", Num(-1)),
     With(validQemu, "vmid", Num(0)),
     With(validQemu, "vmid", Half(3)),
     With(validQemu, "type", Str(<<"i", "n", "v", "a", "l", "i", "d">>)),
     With(validQemu, "host", Str(<<"n", "o", "t", " ", "a", " ", "v", "a", "l", "i", "d", " ", "h", "o", "s", "t", "n", "a", "m", "e">>)),
     With(validLxc, "node", Str(<<"-", "a">>)),
     With(validLxc, "port", Null),
     Without(validQemu, "host"),
     Obj(<<"vmid", "type">>, [vmid |-> Num(1000), type |-> Str(<<"q", "e", "m", "u">>)]),
     Null,
     Num(5) >>

\* values of port that are no positive integer: text that is no number, zero,
\* a negative number, a fraction, the empty string, the text of a negative
\* number
BadPortSeq == << Str(<<"a", "b", "c">>), Num(0), Num(-1), Half(11801), Str(<<>>), Str(<<"-", "5">>) >>

BadPorts == {BadPortSeq[i] : i \in 1..Len(BadPortSeq)}

\* the first valid descriptor with a port that is no number, and with port zero
PortDocs == << With(validQemu, "port", BadPortSeq[1]), With(validQemu, "port", BadPortSeq[2]) >>

JsonSamples == {DocSeq[i] : i \in 1..Len(DocSeq)} \cup {PortDocs[i] : i \in 1..Len(PortDocs)}

\* JSON.parse(text): the value whose text it is, over the sample values; any
\* other text is a SyntaxError
JSONParse(text) ==
  IF \E v \in JsonSamples : Stringify(v) = text
  THEN Ok(CHOOSE v \in JsonSamples : Stringify(v) = text)
  ELSE Throw("SyntaxError", "JSON Parse error")

\* the guest identifiers of the sample descriptors: the keys of `sockets`
Guests == {d.vals["vmid"].num : d \in ValidDocs}

\* ------------------------------------------------------------------ requests

\* the SIGNATURE_KEY of the tests
TestKey == HexDigits \o HexDigits \o HexDigits \o HexDigits

\* another key of 256 bits
OtherKey == [i \in 1..Len(TestKey) |-> TestKey[Len(TestKey) + 1 - i]]

\* the values process.env.SIGNATURE_KEY takes: unset, or the test key
Keys == {<<>>, TestKey}

\* an initialization vector, as crypto.getRandomValues may draw it
SampleIv == [i \in 1..BlockSize |-> (i * 37) % 256]

\* the wire string the example backend produces for a plaintext
Wire(text) == encryptPayload(text, SampleIv, TestKey).value

\* payloads that are no encryption of a JSON text
OddPayloads ==
  << <<"n", "o", "t", "-", "a", "-", "v", "a", "l", "i", "d", "-", "p", "a", "y", "l", "o", "a", "d">>,
     <<":", "a", "b">>,
     <<"a", "b", ":">>,
     <<":">>,
     <<"z", "z", ":", "z", "z">>,
     Wire(<<"h", "e", "l", "l", "o">>),
     Wire(Stringify(validQemu)) \o <<":", "f", "f">>,
     encryptPayload(Stringify(validQemu), SampleIv, OtherKey).value,
     SubSeq(Wire(Stringify(validQemu)), 1, 2 * BlockSize + 1 + 2 * BlockSize) >>

Payloads == [i \in 1..Len(DocSeq) |-> Wire(Stringify(DocSeq[i]))] \o OddPayloads

Request(method, hasPayload, payload) ==
  [method |-> method, hasPayload |-> hasPayload, payload |-> payload]

\* the requests: a GET with each payload, with an empty payload parameter and
\* without one; a POST without a payload parameter, with the first (valid)
\* payload and with the first odd one
Requests ==
  [i \in 1..Len(Payloads) |-> Request("GET", TRUE, Payloads[i])]
  \o << Request("GET", TRUE, <<>>),
        Request("GET", FALSE, <<>>),
        Request("POST", FALSE, <<>>),
        Request("POST", TRUE, Payloads[1]),
        Request("POST", TRUE, OddPayloads[1]) >>
  \o [i \in 1..Len(PortDocs) |-> Request("GET", TRUE, Wire(Stringify(PortDocs[i])))]

\* ------------------------------------------------------------------ fetch

\* Response.json({error, code, issues}, {status})
JsonResponse(error, code, issues, status) ==
  [status |-> status, body |-> [error |-> error, code |-> code, issues |-> issues]]

\* fetch returned undefined after server.upgrade(request, {data})
NoResponse == [status |-> 0, body |-> [error |-> "", code |-> 0, issues |-> <<>>]]

NoData == [k \in {} |-> 0]

Upgraded(d) == [upgrade |-> TRUE, data |-> d, response |-> NoResponse]
Responded(r) == [upgrade |-> FALSE, data |-> NoData, response |-> r]

\* a catch that answers with the message of the error
catch_LeakMessage(error) ==
  IF error.name = "ZodError"
  THEN Responded(JsonResponse("Invalid payload", 400, error.issues, 400))
  ELSE Responded(JsonResponse(error.message, 500, <<>>, 500))

\* a catch clause that does not tell a ZodError from other errors
catch_Always500(error) ==
  Responded(JsonResponse("Internal server error", 500, <<>>, 500))

\* the catch clause of fetch
catch(error) ==
  IF error.name = "ZodError"
  THEN Responded(JsonResponse("Invalid payload", 400, error.issues, 400))
  ELSE Responded(JsonResponse("Internal server error", 500, <<>>, 500))

\* a fetch without the method test
methodNotAllowed_Never(request) == FALSE

\* request.method !== "GET"
methodNotAllowed(request) == request.method # "GET"

\* a test for null only, which lets the empty string through
missingPayload_NullOnly(request) == ~request.hasPayload

\* !encryptedPayload, for params.get("payload"): null without the parameter,
\* the empty string with an empty one
missingPayload(request) == ~request.hasPayload \/ request.payload = <<>>

\* fetch(request, server) with process.env.SIGNATURE_KEY = key: the response,
\* or the upgrade with the data of the connection.  The request is taken to
\* carry the headers of a WebSocket handshake, so that server.upgrade succeeds.
fetch(request, key) ==
  IF methodNotAllowed(request)
  THEN Responded(JsonResponse("Method not allowed. Supported methods: GET", 405, <<>>, 405))
  ELSE IF missingPayload(request)
  THEN Responded(JsonResponse("Missing payload", 400, <<>>, 400))
  ELSE LET decryptedPayload == decryptPayload(request.payload, key)
           json == JSONParse(decryptedPayload.value)
           parsed == websocketDataSchema(json.value)
       IN IF ~decryptedPayload.ok THEN catch(decryptedPayload.error)
          ELSE IF ~json.ok THEN catch(json.error)
          ELSE IF ~parsed.ok THEN catch(parsed.error)
          ELSE Upgraded(parsed.value)

\* fetch, evaluated once for every key and request
FetchTable == [k \in Keys, i \in 1..Len(Requests) |-> fetch(Requests[i], k)]

\* process.env.SIGNATURE_KEY (the empty string: unset)
SIGNATURE_KEY == IF env = "set" THEN TestKey ELSE <<>>

\* ws.data of session s
wsData(s) == FetchTable[SIGNATURE_KEY, data[s].request].data

\* ------------------------------------------------------------------ the relay
\* The handlers are functions of the connections' state st: the map `sockets`,
\* the two connections of every session and what was sent on them.

Cur ==
  [sockets |-> sockets, client |-> client, wsClosed |-> wsClosed,
   pws |-> pws, pwsClosed |-> pwsClosed, sentUp |-> sentUp, sentClient |-> sentClient]

Commit(st) ==
  /\ sockets' = st.sockets
  /\ client' = st.client
  /\ wsClosed' = st.wsClosed
  /\ pws' = st.pws
  /\ pwsClosed' = st.pwsClosed
  /\ sentUp' = st.sentUp
  /\ sentClient' = st.sentClient

NoClose == [by |-> "nobody", code |-> 0, reason |-> ""]
Closed(by, code, reason) == [by |-> by, code |-> code, reason |-> reason]

\* ws.data.vmid of session s
vmid(s) == data[s].vmid

\* socket.send(message) on the upstream connection t: a connection that is
\* not open drops the frame
socketSend(st, t, frame) ==
  IF st.pws[t] = "open" THEN [st EXCEPT !.sentUp[t] = Append(@, frame)] ELSE st

\* ws.send(data) on the client connection s: a closed connection drops the frame
wsSend(st, s, frame) ==
  IF st.client[s] = "open" THEN [st EXCEPT !.sentClient[s] = Append(@, frame)] ELSE st

\* socket.close(code, reason) on the upstream connection t: starts the closing
\* handshake; no effect on a connection that is closing or closed
socketClose(st, t, code, reason) ==
  IF st.pws[t] \in {"connecting", "open"}
  THEN [st EXCEPT !.pws[t] = "closing", !.pwsClosed[t] = Closed("relay", code, reason)]
  ELSE st

\* a close handler that empties the map
close_EveryGuest(st, s, code, reason) ==
  LET socket == st.sockets[vmid(s)]
  IN IF socket # NoSocket
     THEN [socketClose(st, socket, code, reason)
             EXCEPT !.sockets = [g \in DOMAIN st.sockets |-> NoSocket]]
     ELSE st

\* websocket.close(ws, code, reason)
close(st, s, code, reason) ==
  LET socket == st.sockets[vmid(s)]
  IN IF socket # NoSocket
     THEN [socketClose(st, socket, code, reason) EXCEPT !.sockets[vmid(s)] = NoSocket]
     ELSE st

\* ws.close(code, reason) on the client connection s: closes it and runs the
\* close handler; no effect on a closed connection
wsClose(st, s, code, reason) ==
  IF st.client[s] = "open"
  THEN close([st EXCEPT !.client[s] = "closed",
                        !.wsClosed[s] = Closed("relay", code, reason)],
             s, code, reason)
  ELSE st

\* a message handler that drops the frame when the map has no entry
message_DropOnMiss(st, s, m) ==
  LET socket == st.sockets[vmid(s)]
  IN IF socket = NoSocket THEN st
     ELSE socketSend(st, socket, [from |-> s, body |-> m])

\* websocket.message(ws, message)
message(st, s, m) ==
  LET socket == st.sockets[vmid(s)]
  IN IF socket = NoSocket
     THEN wsClose(st, s, 1011, "Upstream websocket not found")
     ELSE socketSend(st, socket, [from |-> s, body |-> m])

\* websocket.open(ws): new WebSocket(url, {headers})
open(st, s) == [st EXCEPT !.pws[s] = "connecting"]

\* an open listener that keeps an entry that is already there
pwsOpenListener_FirstWins(st, s) ==
  IF st.sockets[vmid(s)] = NoSocket THEN [st EXCEPT !.sockets[vmid(s)] = s] ELSE st

\* the listeners of pws
pwsOpenListener(st, s) == [st EXCEPT !.sockets[vmid(s)] = s]

pwsMessageListener(st, s, m) == wsSend(st, s, [from |-> s, body |-> m])

\* an error listener that leaves the client connection alone
pwsErrorListener_Ignore(st, s) == st

pwsErrorListener(st, s) == wsClose(st, s, 1011, "Upstream websocket error")

\* a close listener that closes the client with 1000, whatever the code
pwsCloseListener_FixedCode(st, s, code) == wsClose(st, s, 1000, "Upstream websocket closed")

pwsCloseListener(st, s, code) == wsClose(st, s, code, "Upstream websocket closed")

\* ------------------------------------------------------------------ events

Frames == {"hello", "world"}

\* the (code, reason) a client closes with: a normal close, and an abnormal one
ClientCloses == {<<1000, "bye">>, <<1006, "">>}

\* the codes an upstream connection closes with
UpstreamCloseCodes == {1000, 1006}

RECURSIVE SumLen(_, _)
SumLen(f, n) == IF n = 0 THEN 0 ELSE Len(f[n]) + SumLen(f, n - 1)

TotalFrames == SumLen(recvClient, MaxSessions) + SumLen(recvUp, MaxSessions)

\* no function has been called on its own
NoCall == [fn |-> "none", args |-> <<>>, result |-> <<>>]

\* a handler other than fetch ran
NotFetch == lastRequest' = 0 /\ response' = NoResponse /\ call' = call

Init ==
  /\ env \in {"set", "unset"}
  /\ data = [s \in Sessions |-> [request |-> 0, vmid |-> 0]]
  /\ client = [s \in Sessions |-> "none"]
  /\ wsClosed = [s \in Sessions |-> NoClose]
  /\ pws = [s \in Sessions |-> "none"]
  /\ pwsClosed = [s \in Sessions |-> NoClose]
  /\ sockets = [g \in Guests |-> NoSocket]
  /\ recvClient = [s \in Sessions |-> <<>>]
  /\ sentUp = [s \in Sessions |-> <<>>]
  /\ recvUp = [s \in Sessions |-> <<>>]
  /\ sentClient = [s \in Sessions |-> <<>>]
  /\ closeEvent = [s \in Sessions |-> 0]
  /\ lastRequest = 0
  /\ response = NoResponse
  /\ call = NoCall

\* a request arrives: fetch answers it, or upgrades it; then the open handler
\* of the new connection runs
Fetch(i) ==
  LET res == FetchTable[SIGNATURE_KEY, i]
      s == CHOOSE x \in Sessions : client[x] = "none" /\ \A y \in 1..(x - 1) : client[y] # "none"
  IN /\ res.upgrade => \E x \in Sessions : client[x] = "none"
     /\ response' = res.response
     /\ lastRequest' = i
     /\ IF res.upgrade
        THEN /\ data' = [data EXCEPT ![s] = [request |-> i, vmid |-> res.data["vmid"].num]]
             /\ Commit(open([Cur EXCEPT !.client[s] = "open"], s))
        ELSE /\ data' = data
             /\ Commit(Cur)
     /\ UNCHANGED <<recvClient, recvUp, closeEvent, env, call>>

\* a frame arrives from the client of session s
ClientMessage(s, m) ==
  /\ client[s] = "open"
  /\ TotalFrames < MaxFrames
  /\ recvClient' = [recvClient EXCEPT ![s] = Append(@, m)]
  /\ Commit(message(Cur, s, m))
  /\ NotFetch
  /\ UNCHANGED <<data, recvUp, closeEvent, env>>

\* the client of session s closes its connection
ClientClose(s, code, reason) ==
  /\ client[s] = "open"
  /\ Commit(close([Cur EXCEPT !.client[s] = "closed",
                              !.wsClosed[s] = Closed("client", code, reason)],
                  s, code, reason))
  /\ NotFetch
  /\ UNCHANGED <<data, recvClient, recvUp, closeEvent, env>>

\* the upstream connection of session s opens
PwsOpen(s) ==
  /\ pws[s] = "connecting"
  /\ Commit(pwsOpenListener([Cur EXCEPT !.pws[s] = "open"], s))
  /\ NotFetch
  /\ UNCHANGED <<data, recvClient, recvUp, closeEvent, env>>

\* a frame arrives from the upstream connection of session s
PwsMessage(s, m) ==
  /\ pws[s] = "open"
  /\ TotalFrames < MaxFrames
  /\ recvUp' = [recvUp EXCEPT ![s] = Append(@, m)]
  /\ Commit(pwsMessageListener(Cur, s, m))
  /\ NotFetch
  /\ UNCHANGED <<data, recvClient, closeEvent, env>>

\* the upstream connection of session s fails: while connecting, while open
\* or while closing
PwsError(s) ==
  /\ pws[s] \in {"connecting", "open", "closing"}
  /\ Commit(pwsErrorListener([Cur EXCEPT !.pws[s] = "errored"], s))
  /\ NotFetch
  /\ UNCHANGED <<data, recvClient, recvUp, closeEvent, env>>

\* the upstream connection of session s is closed: by the upstream host, at
\* the end of the closing handshake, or after an error
PwsClose(s, code) ==
  /\ pws[s] \in {"open", "closing", "errored"}
  /\ Commit(pwsCloseListener([Cur EXCEPT !.pws[s] = "closed"], s, code))
  /\ closeEvent' = [closeEvent EXCEPT ![s] = code]
  /\ NotFetch
  /\ UNCHANGED <<data, recvClient, recvUp, env>>

\* the requests that carry the two valid descriptors
RelayRequests == {1, 2}

\* the relay under requests that are upgraded
Next ==
  \/ \E i \in RelayRequests : Fetch(i)
  \/ \E s \in Sessions, m \in Frames : ClientMessage(s, m)
  \/ \E s \in Sessions, c \in ClientCloses : ClientClose(s, c[1], c[2])
  \/ \E s \in Sessions : PwsOpen(s)
  \/ \E s \in Sessions, m \in Frames : PwsMessage(s, m)
  \/ \E s \in Sessions : PwsError(s)
  \/ \E s \in Sessions, code \in UpstreamCloseCodes : PwsClose(s, code)

Spec == Init /\ [][Next]_vars

\* the frames from clients in the lives of the sessions
MaxLifeFrames == 1

\* the lives of the sessions: every handler that opens or closes a connection
\* or changes the map, under one frame body and one client close; the frames
\* from upstream, which the relay only passes on, are left out
NextLife ==
  \/ \E i \in RelayRequests : Fetch(i)
  \/ \E s \in Sessions : TotalFrames < MaxLifeFrames /\ ClientMessage(s, "hello")
  \/ \E s \in Sessions : ClientClose(s, 1000, "bye")
  \/ \E s \in Sessions : PwsOpen(s)
  \/ \E s \in Sessions : PwsError(s)
  \/ \E s \in Sessions, code \in UpstreamCloseCodes : PwsClose(s, code)

SpecLife == Init /\ [][NextLife]_vars

\* the sessions that the requests to the fetch handler may create
MaxHttpSessions == 1

\* the fetch handler under every request, between the opens and the normal
\* closes of the sessions (no frames, no errors)
NextHttp ==
  \/ \E i \in 1..Len(Requests) :
       /\ Fetch(i)
       /\ Cardinality({s \in Sessions : client'[s] # "none"}) <= MaxHttpSessions
  \/ \E s \in Sessions : ClientClose(s, 1000, "bye")
  \/ \E s \in Sessions : PwsOpen(s)
  \/ \E s \in Sessions : PwsClose(s, 1000)

SpecHttp == Init /\ [][NextHttp]_vars

\* ------------------------------------------------------------------ properties of the relay

\* the state of the sessions: everything but the last request, its response
\* and the environment
relay == <<data, client, wsClosed, pws, pwsClosed, sockets,
           recvClient, sentUp, recvUp, sentClient, closeEvent>>

Created(s) == client[s] # "none"

\* Active: the client connection is open, the upstream connection is open
\* and registered under the guest identifier of the session
Active(s) == client[s] = "open" /\ pws[s] = "open" /\ sockets[vmid(s)] = s

Bodies(frames) == [i \in 1..Len(frames) |-> frames[i].body]

\* C1: when the upstream connection of an Active session closes with code c,
\* the client connection of that session is closed by the relay with code c
\* and the reason "Upstream websocket closed", and right after the handler
\* the map has no entry for the guest identifier of the session.
C1_UpstreamCloseClosesClient ==
  [][\A s \in Sessions, c \in UpstreamCloseCodes :
       (Active(s) /\ pws'[s] = "closed" /\ closeEvent'[s] = c)
       => /\ client'[s] = "closed"
          /\ wsClosed'[s] = Closed("relay", c, "Upstream websocket closed")
          /\ sockets'[vmid(s)] = NoSocket]_vars

\* an upstream connection that the relay never closed has closed with the
\* abnormal code 1006, and the client was closed with that code
C1_Witness ==
  \E s \in Sessions :
    /\ closeEvent[s] = 1006
    /\ pws[s] = "closed"
    /\ pwsClosed[s] = NoClose
    /\ wsClosed[s] = Closed("relay", 1006, "Upstream websocket closed")
    /\ sockets[vmid(s)] = NoSocket

\* C2: once the client of an upgraded session has closed, whether the session
\* was Connecting or Active, the upstream connection of that session is not
\* left open and is not in the map.
C2_ClientCloseClosesUpstream ==
  \A s \in Sessions :
    wsClosed[s].by = "client"
    => /\ pws[s] # "open"
       /\ sockets[vmid(s)] # s

\* C3: while a session is Active, the frames sent on its upstream connection
\* are the frames received from its client, in order, and the frames sent to
\* its client are the frames received from its upstream connection.
C3_FramesForwardedInOrder ==
  \A s \in Sessions :
    (Created(s) /\ Active(s))
    => /\ Bodies(sentUp[s]) = recvClient[s]
       /\ Bodies(sentClient[s]) = recvUp[s]

\* C4: a frame received from the client of session s is sent only on the
\* upstream connection that s opened, and a frame received from the upstream
\* connection of s only to the client of s.
C4_NoCrossSessionFrames ==
  \A t \in Sessions :
    /\ \A i \in 1..Len(sentUp[t]) : sentUp[t][i].from = t
    /\ \A i \in 1..Len(sentClient[t]) : sentClient[t][i].from = t

\* C5: the teardown of a session u (its client connection closes: by the
\* client, or by the relay on an upstream close or error) removes the map
\* entry of its guest only if the entry holds the upstream connection of u: it
\* leaves the entry of another session t in place and does not close the
\* upstream connection of t.
C5_CompareAndRemove ==
  [][\A t, u \in Sessions :
       (t # u /\ Created(t) /\ client[u] = "open" /\ client'[u] = "closed")
       => /\ (sockets[vmid(t)] = t => sockets'[vmid(t)] = t)
          /\ pwsClosed'[t] = pwsClosed[t]]_vars

\* C6: last-open-wins.  The open of the upstream connection of session s
\* stores it under the guest identifier of s, whatever was stored, and closes
\* no other upstream connection; every other handler leaves an entry as it is
\* or removes it.  So an entry is the upstream connection that opened last for
\* its guest, unless the entry was removed since.
C6_LastOpenWins ==
  [][/\ \A s \in Sessions :
          (pws[s] = "connecting" /\ pws'[s] = "open")
          => /\ sockets'[vmid(s)] = s
             /\ \A g \in Guests \ {vmid(s)} : sockets'[g] = sockets[g]
             /\ \A t \in Sessions \ {s} : pws'[t] = pws[t] /\ pwsClosed'[t] = pwsClosed[t]
      /\ ((\A u \in Sessions : ~(pws[u] = "connecting" /\ pws'[u] = "open"))
          => \A g \in Guests : sockets'[g] \in {sockets[g], NoSocket})]_vars

\* a second upstream connection has opened for the guest of an earlier one,
\* which is still open and no longer in the map
C6_Witness ==
  \E s, t \in Sessions :
    /\ s # t
    /\ Created(s) /\ Created(t)
    /\ vmid(s) = vmid(t)
    /\ pws[t] = "open"
    /\ sockets[vmid(t)] = t
    /\ pws[s] = "open"
    /\ client[s] = "open"

\* ------------------------------------------------------------------ properties of fetch

\* the handler of the step is fetch, for request i
Fetched(i) == lastRequest' = i

\* no upgrade, no session, and the map and the connections as they were
NothingUpgraded == relay' = relay

\* the wire string has no ":" separator, or an empty half
MalformedWire(payload) ==
  LET parts == Split(payload, ":")
  IN Len(parts) < 2 \/ parts[1] = <<>> \/ parts[2] = <<>>

\* the GET requests with a payload that is malformed on the wire
MalformedRequests ==
  {i \in 1..Len(Requests) :
     /\ Requests[i].method = "GET"
     /\ Requests[i].hasPayload
     /\ Requests[i].payload # <<>>
     /\ MalformedWire(Requests[i].payload)}

\* C7: a GET request whose payload is present but malformed on the wire is
\* answered with status 400; there is no upgrade, no session is created and
\* the map is unchanged.
C7_MalformedPayloadIs400 ==
  [][\A i \in MalformedRequests :
       Fetched(i) => response'.status = 400 /\ NothingUpgraded]_vars

\* the issues of the validator for the payload of request i under key k, or
\* the empty sequence when the payload does not decrypt to JSON text, or
\* decrypts to a value of the schema
ValidatorIssues(k, i) ==
  LET decryptedPayload == decryptPayload(Requests[i].payload, k)
      json == JSONParse(decryptedPayload.value)
      parsed == websocketDataSchema(json.value)
  IN IF Requests[i].payload = <<>> \/ ~decryptedPayload.ok THEN <<>>
     ELSE IF ~json.ok THEN <<>>
     ELSE IF parsed.ok THEN <<>>
     ELSE parsed.error.issues

IssuesTable == [k \in Keys, i \in 1..Len(Requests) |-> ValidatorIssues(k, i)]

\* C8: a GET request whose payload decrypts to well-formed JSON that violates
\* the schema is answered with status 400, error "Invalid payload" and the
\* issues of the validator, which are not empty; there is no upgrade and
\* the map is unchanged.
C8_SchemaViolationIs400 ==
  [][\A i \in 1..Len(Requests) :
       (/\ Fetched(i)
        /\ Requests[i].method = "GET"
        /\ Requests[i].hasPayload
        /\ IssuesTable[SIGNATURE_KEY, i] # <<>>)
       => /\ response' = JsonResponse("Invalid payload", 400,
                                       IssuesTable[SIGNATURE_KEY, i], 400)
          /\ response'.body.issues # <<>>
          /\ NothingUpgraded]_vars

\* a descriptor with two violations was rejected while a session was registered
C8_Witness ==
  /\ lastRequest # 0
  /\ response.status = 400
  /\ response.body.error = "Invalid payload"
  /\ Len(response.body.issues) >= 2
  /\ \E g \in Guests : sockets[g] # NoSocket

\* C9: every request whose method is not GET is answered with status 405 and
\* the body {error: "Method not allowed. Supported methods: GET", code: 405,
\* issues: []}, with or without a payload parameter, valid or not, with or
\* without the key; there is no upgrade and the map is unchanged.
C9_NonGetIs405 ==
  [][\A i \in 1..Len(Requests) :
       (Fetched(i) /\ Requests[i].method # "GET")
       => /\ response' = JsonResponse("Method not allowed. Supported methods: GET",
                                       405, <<>>, 405)
          /\ NothingUpgraded]_vars

\* a POST that carries the payload of a valid descriptor was answered with
\* 405 while a session was registered
C9_Witness ==
  /\ lastRequest # 0
  /\ Requests[lastRequest].method = "POST"
  /\ Requests[lastRequest].payload = Payloads[1]
  /\ env = "set"
  /\ response.status = 405
  /\ \E g \in Guests : sockets[g] # NoSocket

\* C10: a GET request without a payload parameter, or with an empty one, is
\* answered with status 400 and the body {error: "Missing payload", code: 400,
\* issues: []}; there is no upgrade and the map is unchanged.
C10_MissingPayloadIs400 ==
  [][\A i \in 1..Len(Requests) :
       (/\ Fetched(i)
        /\ Requests[i].method = "GET"
        /\ (~Requests[i].hasPayload \/ Requests[i].payload = <<>>))
       => /\ response' = JsonResponse("Missing payload", 400, <<>>, 400)
          /\ NothingUpgraded]_vars

\* a GET with an empty payload parameter was answered with 400 while a
\* session was registered
C10_Witness ==
  /\ lastRequest # 0
  /\ Requests[lastRequest].method = "GET"
  /\ Requests[lastRequest].hasPayload
  /\ Requests[lastRequest].payload = <<>>
  /\ response = JsonResponse("Missing payload", 400, <<>>, 400)
  /\ \E g \in Guests : sockets[g] # NoSocket

\* ------------------------------------------------------------------ upstream errors and registry misses

\* Connecting: the client connection is open and the upstream connection has
\* not opened yet
Connecting(s) == client[s] = "open" /\ pws[s] = "connecting"

\* C11: when the upstream connection of a Connecting or Active session raises
\* an error, the client connection of the session is closed by the relay with
\* code 1011 and the reason "Upstream websocket error", and right after the
\* handler the map has no entry that holds the upstream connection of the
\* session.  An upstream connection that has not opened is not in the map, and
\* one that has failed or closed is not stored in the map by any later step: a
\* connection that fails before it opens is never registered.
C11_UpstreamErrorClosesClient ==
  [][\A s \in Sessions :
       /\ ((Connecting(s) \/ Active(s)) /\ pws'[s] = "errored")
          => /\ client'[s] = "closed"
             /\ wsClosed'[s] = Closed("relay", 1011, "Upstream websocket error")
             /\ sockets'[vmid(s)] # s
       /\ (Created(s) /\ pws[s] = "connecting") => sockets[vmid(s)] # s
       /\ (Created(s) /\ pws[s] \in {"errored", "closed"} /\ sockets[vmid(s)] # s)
          => sockets'[vmid(s)] # s]_vars

\* two upstream connections have failed, one that had opened and had been sent
\* a frame and one that never opened; both clients were closed with 1011
C11_Witness ==
  \E s, t \in Sessions :
    /\ s # t
    /\ pws[s] = "errored" /\ sentUp[s] # <<>>
    /\ pws[t] = "errored" /\ vmid(t) # vmid(s)
    /\ wsClosed[s] = Closed("relay", 1011, "Upstream websocket error")
    /\ wsClosed[t] = Closed("relay", 1011, "Upstream websocket error")
    /\ sockets[vmid(s)] = NoSocket /\ sockets[vmid(t)] = NoSocket

\* C12: a frame from the client of session s that arrives while the map has
\* no entry for the guest identifier of s is sent on no upstream connection,
\* and the client connection of s is closed by the relay with code 1011 and
\* the reason "Upstream websocket not found".
C12_RegistryMissClosesClient ==
  [][\A s \in Sessions :
       (/\ client[s] = "open"
        /\ sockets[vmid(s)] = NoSocket
        /\ recvClient'[s] # recvClient[s])
       => /\ sentUp' = sentUp
          /\ client'[s] = "closed"
          /\ wsClosed'[s] = Closed("relay", 1011, "Upstream websocket not found")]_vars

\* a client has sent a frame before its upstream connection opened: it was
\* closed with 1011, and no upstream connection was sent anything
C12_Witness ==
  \E s \in Sessions :
    /\ recvClient[s] # <<>>
    /\ pws[s] = "connecting"
    /\ wsClosed[s] = Closed("relay", 1011, "Upstream websocket not found")
    /\ \A t \in Sessions : sentUp[t] = <<>>

\* ------------------------------------------------------------------ sessions of different guests

\* the step is an event of session u: its upgrade and open, a frame from its
\* client or from its upstream connection, the close of its client, or the
\* open, error or close event of its upstream connection
EventOf(u) ==
  \/ client[u] = "none" /\ client'[u] = "open"
  \/ recvClient'[u] # recvClient[u]
  \/ recvUp'[u] # recvUp[u]
  \/ wsClosed[u].by # "client" /\ wsClosed'[u].by = "client"
  \/ pws[u] = "connecting" /\ pws'[u] = "open"
  \/ pws[u] # "errored" /\ pws'[u] = "errored"
  \/ pws[u] # "closed" /\ pws'[u] = "closed"

\* C13: an event of a session for guest g (open, frame, upstream error,
\* upstream close, client close, registry miss) closes neither connection of a
\* session for another guest, sends nothing on them, and leaves the map entry
\* of every other guest as it is.
C13_OtherGuestsUntouched ==
  [][\A u \in Sessions :
       EventOf(u)
       => /\ \A g \in Guests \ {data'[u].vmid} : sockets'[g] = sockets[g]
          /\ \A t \in Sessions :
               (Created(t) /\ vmid(t) # data'[u].vmid)
               => /\ client'[t] = client[t]
                  /\ wsClosed'[t] = wsClosed[t]
                  /\ pws'[t] = pws[t]
                  /\ pwsClosed'[t] = pwsClosed[t]
                  /\ sentUp'[t] = sentUp[t]
                  /\ sentClient'[t] = sentClient[t]]_vars

\* the session of one guest was torn down by an upstream error or by a
\* registry miss while the session of another guest is Active
C13_Witness ==
  \E s, t \in Sessions :
    /\ Created(s) /\ Created(t)
    /\ vmid(s) # vmid(t)
    /\ wsClosed[s].by = "relay" /\ wsClosed[s].code = 1011
    /\ Active(t)

\* ------------------------------------------------------------------ the functions on their own

\* the server as it stands: the state that a call of a function leaves alone
server == <<data, client, wsClosed, pws, pwsClosed, sockets,
            recvClient, sentUp, recvUp, sentClient, closeEvent, lastRequest, response, env>>

\* The functions are called one at a time: a call records the function, its
\* arguments and what it returns, and Return ends it.
Return ==
  /\ call # NoCall
  /\ call' = NoCall
  /\ UNCHANGED server

ApiTokenPrefix == <<"P", "V", "E", "A", "P", "I", "T", "o", "k", "e", "n", "=">>
AuthCookiePrefix == <<"P", "V", "E", "A", "u", "t", "h", "C", "o", "o", "k", "i", "e", "=">>

\* a header set that always wraps the ticket as a cookie
headers_AlwaysCookie(ticket) == [authorization |-> AuthCookiePrefix \o ticket]

\* the headers of the upstream connection, in websocket.open
headers(ticket) ==
  IF StartsWith(ticket, ApiTokenPrefix)
  THEN [authorization |-> ticket]
  ELSE [authorization |-> AuthCookiePrefix \o ticket]

\* tickets: the two of the tests, a bare cookie value, the empty string, the
\* prefix alone, and strings that only resemble the prefix
Tickets ==
  { <<"P", "V", "E", "A", "P", "I", "T", "o", "k", "e", "n", "=", "t", "e", "s", "t">>,
    <<"P", "V", "E", "A", "u", "t", "h", "C", "o", "o", "k", "i", "e", "=", "t", "e", "s", "t", "-", "c", "o", "o", "k", "i", "e">>,
    <<"t", "e", "s", "t", "-", "c", "o", "o", "k", "i", "e">>,
    <<>>,
    <<"P", "V", "E", "A", "P", "I", "T", "o", "k", "e", "n", "=">>,
    <<"P", "V", "E", "A", "P", "I", "T", "o", "k", "e", "n">>,
    <<"p", "v", "e", "a", "p", "i", "t", "o", "k", "e", "n", "=", "t", "e", "s", "t">>,
    <<" ", "P", "V", "E", "A", "P", "I", "T", "o", "k", "e", "n", "=", "t", "e", "s", "t">>,
    <<"x", "P", "V", "E", "A", "P", "I", "T", "o", "k", "e", "n", "=", "t", "e", "s", "t">>,
    <<"P", "V", "E", "A", "P", "I", "T", "o", "k", "e", "n", ":", "t", "e", "s", "t">> }

CallHeaders ==
  /\ call = NoCall
  /\ \E ticket \in Tickets :
       call' = [fn |-> "headers", args |-> <<ticket>>, result |-> headers(ticket)]
  /\ UNCHANGED server

\* C14: the authorization header of the upstream connection is the ticket
\* unchanged exactly when the ticket starts with "PVEAPIToken="; for every
\* other ticket, one that starts with "PVEAuthCookie=" included, it is
\* "PVEAuthCookie=" followed by the ticket.
C14_AuthorizationHeader ==
  call.fn = "headers"
  => LET ticket == call.args[1]
         value == call.result.authorization
         isToken == /\ Len(ticket) >= Len(ApiTokenPrefix)
                    /\ \A i \in 1..Len(ApiTokenPrefix) : ticket[i] = ApiTokenPrefix[i]
     IN /\ isToken => value = ticket
        /\ ~isToken => /\ Len(value) = Len(AuthCookiePrefix) + Len(ticket)
                       /\ SubSeq(value, 1, Len(AuthCookiePrefix)) = AuthCookiePrefix
                       /\ SubSeq(value, Len(AuthCookiePrefix) + 1, Len(value)) = ticket
        /\ DOMAIN call.result = {"authorization"}

\* the header of a ticket that starts with "PVEAuthCookie=" has the prefix twice
C14_Witness ==
  /\ call.fn = "headers"
  /\ StartsWith(call.args[1], AuthCookiePrefix)
  /\ StartsWith(call.result.authorization, AuthCookiePrefix \o AuthCookiePrefix)

\* ------------------------------------------------------------------ constructWebsocketUrl

\* String.prototype.toLowerCase on ASCII: what the URL parser does to a host
ToLowerCase(str) ==
  [i \in 1..Len(str) |->
     IF CharCodeAt(str[i]) >= 65 /\ CharCodeAt(str[i]) <= 90
     THEN Ascii[CharCodeAt(str[i]) + 32 - 31]
     ELSE str[i]]

\* `${value}` of a number or a string
TemplateString(v) == IF v.t = "number" THEN NumberToString(v) ELSE v.s

RECURSIVE Concat(_)
Concat(strs) == IF strs = <<>> THEN <<>> ELSE Head(strs) \o Concat(Tail(strs))

\* the application/x-www-form-urlencoded serialisation of a name or value of
\* URLSearchParams: a space becomes "+", a character other than a letter, a
\* digit, "*", "-", "." and "_" becomes "%" and two hex digits
FormEncode(str) ==
  Concat([i \in 1..Len(str) |->
            IF IsAlnum(str[i]) \/ str[i] \in {"*", "-", ".", "_"} THEN <<str[i]>>
            ELSE IF str[i] = " " THEN <<"+">>
            ELSE <<"%", UpperHex[(CharCodeAt(str[i]) \div 16) + 1],
                        UpperHex[(CharCodeAt(str[i]) % 16) + 1]>>])

\* url.search for the list of parameters
Search(searchParams) ==
  Concat([i \in 1..Len(searchParams) |->
            (IF i = 1 THEN <<"?">> ELSE <<"&">>)
            \o FormEncode(searchParams[i][1]) \o <<"=">> \o FormEncode(searchParams[i][2])])

\* a URL that always asks for port 5900
constructWebsocketUrl_FixedPort(d) ==
  LET searchParams == << <<<<"p", "o", "r", "t">>, <<"5", "9", "0", "0">>>>, <<<<"v", "n", "c", "t", "i", "c", "k", "e", "t">>, d.vncticket>> >>
      pathname == Concat(<< <<"/", "a", "p", "i", "2", "/", "j", "s", "o", "n", "/", "n", "o", "d", "e", "s", "/">>, d.node, <<"/">>, d.type, <<"/">>,
                            NumberToString(d.vmid), <<"/", "v", "n", "c", "w", "e", "b", "s", "o", "c", "k", "e", "t">> >>)
  IN [protocol |-> <<"w", "s", "s", ":">>, hostname |-> ToLowerCase(d.host), pathname |-> pathname,
      searchParams |-> searchParams, search |-> Search(searchParams)]

\* constructWebsocketUrl({host, node, vmid, type, port, vncticket}), for a host
\* and a node that are hostnames (letters, digits, hyphens and dots, which the
\* URL parser does not escape) and a host that is a domain name: new
\* URL(`wss://${host}`) puts the host in lower case
constructWebsocketUrl(d) ==
  LET searchParams == << <<<<"p", "o", "r", "t">>, TemplateString(d.port)>>, <<<<"v", "n", "c", "t", "i", "c", "k", "e", "t">>, d.vncticket>> >>
      pathname == Concat(<< <<"/", "a", "p", "i", "2", "/", "j", "s", "o", "n", "/", "n", "o", "d", "e", "s", "/">>, d.node, <<"/">>, d.type, <<"/">>,
                            NumberToString(d.vmid), <<"/", "v", "n", "c", "w", "e", "b", "s", "o", "c", "k", "e", "t">> >>)
  IN [protocol |-> <<"w", "s", "s", ":">>, hostname |-> ToLowerCase(d.host), pathname |-> pathname,
      searchParams |-> searchParams, search |-> Search(searchParams)]

\* url.href
Href(url) == url.protocol \o <<"/", "/">> \o url.hostname \o url.pathname \o url.search

\* url.searchParams.get(name)
SearchParamsGet(url, name) ==
  LET at == {i \in 1..Len(url.searchParams) : url.searchParams[i][1] = name}
  IN IF at = {} THEN Null
     ELSE Str(url.searchParams[CHOOSE i \in at : \A j \in at : i <= j][2])

\* the arguments of the tests, a host with capital letters, a port as a
\* number and as its text, and a ticket with characters that the query escapes
UrlHosts == { <<"p", "v", "e", "0", "1", ".", "e", "x", "a", "m", "p", "l", "e", ".", "c", "o", "m">>, <<"p", "v", "e", "0", "2", ".", "e", "x", "a", "m", "p", "l", "e", ".", "c", "o", "m">>, <<"P", "V", "E", "0", "1", ".", "E", "x", "a", "m", "p", "l", "e", ".", "c", "o", "m">> }
UrlNodes == { <<"p", "v", "e", "0", "1">>, <<"p", "v", "e", "0", "2">> }
UrlTypes == { <<"q", "e", "m", "u">>, <<"l", "x", "c">> }
UrlVmids == { Num(1000), Num(2000) }
UrlPorts == { Num(5900), Str(<<"5", "9", "0", "0">>), Str(<<"5", "9", "0", "1">>), Num(5901) }
UrlTickets == { <<"t", "e", "s", "t", "-", "t", "i", "c", "k", "e", "t", "-", "1", "2", "3">>, <<"P", "V", "E", "V", "N", "C", ":", "6", " ", "A", "+", "/", "=", "=">> }

UrlArgs ==
  [host : UrlHosts, node : UrlNodes, type : UrlTypes, vmid : UrlVmids,
   port : UrlPorts, vncticket : UrlTickets]

CallConstructWebsocketUrl ==
  /\ call = NoCall
  /\ \E d \in UrlArgs :
       call' = [fn |-> "constructWebsocketUrl", args |-> <<d>>, result |-> constructWebsocketUrl(d)]
  /\ UNCHANGED server

\* of the URL that constructWebsocketUrl returned for its argument d: the
\* scheme, the path, the two query parameters, and the same URL for a port
\* given as a number and as its decimal text
UrlOfDescriptor(d, url) ==
  /\ url.protocol = <<"w", "s", "s", ":">>
  /\ url.pathname = <<"/", "a", "p", "i", "2", "/", "j", "s", "o", "n", "/", "n", "o", "d", "e", "s", "/">> \o d.node \o <<"/">> \o d.type \o <<"/">>
                     \o Decimal(d.vmid.num) \o <<"/", "v", "n", "c", "w", "e", "b", "s", "o", "c", "k", "e", "t">>
  /\ Len(url.searchParams) = 2
  /\ SearchParamsGet(url, <<"p", "o", "r", "t">>)
       = Str(IF d.port.t = "number" THEN Decimal(d.port.num) ELSE d.port.s)
  /\ SearchParamsGet(url, <<"v", "n", "c", "t", "i", "c", "k", "e", "t">>) = Str(d.vncticket)
  /\ d.port.t = "number"
     => url = constructWebsocketUrl([d EXCEPT !.port = Str(Decimal(d.port.num))])

Plaintexts ==
  { <<>>,
    <<"h", "e", "l", "l", "o">>,
    <<"0", "1", "2", "3", "4", "5", "6", "7", "8", "9", "a", "b", "c", "d", "e">>,
    <<"0", "1", "2", "3", "4", "5", "6", "7", "8", "9", "a", "b", "c", "d", "e", "f">>,
    <<"0", "1", "2", "3", "4", "5", "6", "7", "8", "9", "a", "b", "c", "d", "e", "f", "g">>,
    <<"a", ":", "b">>,
    Stringify(validQemu),
    <<"c", "a", "f", EAcute>>,
    <<ByteOrderMark, "{", "}">>,
    <<"a", LoneSurrogate>> }

\* initialization vectors: of zeros, of 255s, and a mixed one
Ivs == { [i \in 1..BlockSize |-> 0], [i \in 1..BlockSize |-> 255], SampleIv }

\* keys of 256 bits
Keys256 == {TestKey, OtherKey}

\* the round trip of the decryptPayload test: the wire string of the example
\* backend, given back to decryptPayload under the same key
RoundTrip(payload, iv, signatureKey) ==
  decryptPayload(encryptPayload(payload, iv, signatureKey).value, signatureKey)

CallRoundTrip ==
  /\ call = NoCall
  /\ \E payload \in Plaintexts, iv \in Ivs, signatureKey \in Keys256 :
       call' = [fn |-> "roundTrip", args |-> <<payload, iv, signatureKey>>, result |-> RoundTrip(payload, iv, signatureKey)]
  /\ UNCHANGED server

\* C16: for every plaintext P, every key K of 256 bits and every IV of 16
\* bytes, decryptPayload under K of the wire string that encryptPayload
\* produced for P under K returns exactly P.
C16_RoundTrip ==
  call.fn = "roundTrip" => call.result = Ok(call.args[1])

\* ------------------------------------------------------------------ the schema on its own

\* values that are no positive integer
BadVmids == { Num(0), Num(-1), Num(-1000), Half(3), Half(-3) }

\* strings that are no guest type
BadTypes == { Str(<<"i", "n", "v", "a", "l", "i", "d">>), Str(<<"Q", "E", "M", "U">>), Str(<<>>), Str(<<"k", "v", "m">>) }

\* strings that are no hostname: with a space, with an underscore, empty, with
\* a hyphen at the start or at the end of a label, with an empty label
BadHostnames ==
  { Str(<<"n", "o", "t", " ", "a", " ", "v", "a", "l", "i", "d", " ", "h", "o", "s", "t", "n", "a", "m", "e">>), Str(<<"p", "v", "e", "_", "0", "1">>), Str(<<>>), Str(<<"-", "p", "v", "e", "0", "1">>), Str(<<"p", "v", "e", "0", "1", "-", ".", "e", "x", "a", "m", "p", "l", "e", ".", "c", "o", "m">>), Str(<<"p", "v", "e", "0", "1", ".", ".", "c", "o", "m">>) }

\* hostnames beyond those of the tests: one label, capital letters, a digit
\* first, a hyphen inside, a last dot
GoodHostnames == { Str(<<"l", "o", "c", "a", "l", "h", "o", "s", "t">>), Str(<<"P", "V", "E", "0", "1", ".", "E", "x", "a", "m", "p", "l", "e", ".", "c", "o", "m">>), Str(<<"1", "p", "v", "e", "-", "0", "1", ".", "e", "x", "a", "m", "p", "l", "e", ".", "c", "o", "m">>), Str(<<"p", "v", "e", "0", "1", ".", "e", "x", "a", "m", "p", "l", "e", ".", "c", "o", "m", ".">>) }

\* the arguments of the schema: the valid descriptors, each with one property
\* replaced or removed, with another hostname, and with one more property;
\* and values that are no object
SchemaDocs ==
  UNION { {d, WithExtra(d)}
          \cup {With(d, "vmid", v) : v \in BadVmids}
          \cup {With(d, "type", v) : v \in BadTypes}
          \cup {With(d, k, v) : k \in {"host", "node"}, v \in BadHostnames \cup GoodHostnames}
          \cup {With(d, "port", v) : v \in BadPorts}
          \cup {Without(d, k) : k \in ShapeKeys}
          : d \in ValidDocs }
  \cup {Null, Num(5)}

CallWebsocketDataSchema ==
  /\ call = NoCall
  /\ \E json \in SchemaDocs :
       call' = [fn |-> "websocketDataSchema", args |-> <<json>>, result |-> websocketDataSchema(json)]
  /\ UNCHANGED server

\* the property k of a descriptor breaks the invariant the claim names for it
FieldBad(json, k) ==
  \/ ~Has(json, k)
  \/ /\ k = "vmid"
     /\ json.vals[k].t = "number"
     /\ (json.vals[k].num <= 0 \/ json.vals[k].den # 1)
  \/ /\ k = "type"
     /\ json.vals[k] \in BadTypes
  \/ /\ k \in {"host", "node"}
     /\ json.vals[k] \in BadHostnames

\* the property k is the only one at fault: every other property is that of a
\* valid descriptor
OnlyBad(json, k) ==
  /\ json.t = "object"
  /\ FieldBad(json, k)
  /\ \E d \in ValidDocs :
       \A j \in ShapeKeys \ {k} : Has(json, j) /\ json.vals[j] = d.vals[j]

\* C17: the schema rejects a descriptor of which one property alone is at
\* fault (a guest identifier that is zero, negative or no integer, a guest type
\* that is neither qemu nor lxc, a host or a node that is no hostname, any of
\* the seven properties missing), and every issue it reports is about that
\* property; a valid descriptor is accepted and the value returned has its
\* seven properties, each with the value given.
C17_SchemaRejects ==
  call.fn = "websocketDataSchema" =>
    LET json == call.args[1]
        result == call.result
    IN /\ \A k \in ShapeKeys :
            OnlyBad(json, k) =>
              /\ ~result.ok
              /\ result.error.name = "ZodError"
              /\ result.error.issues # <<>>
              /\ \A i \in 1..Len(result.error.issues) : result.error.issues[i].path = <<k>>
       /\ json \in ValidDocs =>
            /\ result.ok
            /\ DOMAIN result.value = ShapeKeys
            /\ \A k \in ShapeKeys : result.value[k] = json.vals[k]

C17_Witness ==
  /\ call.fn = "websocketDataSchema"
  /\ OnlyBad(call.args[1], "node")
  /\ Has(call.args[1], "node")
  /\ ~call.result.ok

\* ------------------------------------------------------------------ decryptPayload on its own

\* the arguments of decryptPayload: the wire strings of the requests, and
\* strings with no, one and several separators
DecryptPayloads ==
  {Payloads[i] : i \in 1..Len(Payloads)}
  \cup { <<>>, <<":", ":">>, <<"a", "b", ":", ":", "c", "d">>, <<"a", "b", ":", "c", "d", ":", "e", "f">>, <<"a", "b", "c", "d", "e", "f">> }

\* the values of SIGNATURE_KEY: unset, the key of the tests, another key
DecryptKeys == Keys \cup {OtherKey}

CallDecryptPayload ==
  /\ call = NoCall
  /\ \E payload \in DecryptPayloads, signatureKey \in DecryptKeys :
       call' = [fn |-> "decryptPayload", args |-> <<payload, signatureKey>>, result |-> decryptPayload(payload, signatureKey)]
  /\ UNCHANGED server

\* the positions of the separator in a wire string
Separators(payload) == {i \in 1..Len(payload) : payload[i] = ":"}

\* the IV half: the text before the first separator
IvHalf(payload) ==
  SubSeq(payload, 1, (CHOOSE i \in Separators(payload) : \A j \in Separators(payload) : i <= j) - 1)

\* the ciphertext half: the text after the first separator, up to the next
\* separator if there is one
CiphertextHalf(payload) ==
  LET first == CHOOSE i \in Separators(payload) : \A j \in Separators(payload) : i <= j
      rest == {i \in Separators(payload) : i > first}
      last == IF rest = {} THEN Len(payload)
              ELSE (CHOOSE i \in rest : \A j \in rest : i <= j) - 1
  IN SubSeq(payload, first + 1, last)

Malformed(payload) ==
  \/ Separators(payload) = {}
  \/ IvHalf(payload) = <<>>
  \/ CiphertextHalf(payload) = <<>>

NextPure ==
  \/ Return
  \/ CallHeaders
  \/ CallConstructWebsocketUrl
  \/ CallRoundTrip
  \/ CallWebsocketDataSchema
  \/ CallDecryptPayload

SpecPure == Init /\ [][NextPure]_vars

\* ------------------------------------------------------------------ the port of a session

DecimalDigits == {"0", "1", "2", "3", "4", "5", "6", "7", "8", "9"}

\* a JSON value that parses to a positive integer: a whole number above zero,
\* or its decimal text
ParsesToPositiveInteger(v) ==
  \/ v.t = "number" /\ v.den = 1 /\ v.num > 0
  \/ /\ v.t = "string"
     /\ v.s # <<>>
     /\ \A i \in 1..Len(v.s) : v.s[i] \in DecimalDigits
     /\ \E i \in 1..Len(v.s) : v.s[i] # "0"

\* C18: no session is opened with a port that does not parse to a positive
\* integer: the port in the data of every session that was created is a whole
\* number above zero or the decimal text of one.
C18_PortPositiveInteger ==
  \A s \in Sessions : Created(s) => ParsesToPositiveInteger(wsData(s)["port"])

\* ------------------------------------------------------------------ failures before the upgrade

NoError == [name |-> "none", message |-> ""]

\* what the try block of fetch throws for request i under key k
Thrown(k, i) ==
  LET decryptedPayload == decryptPayload(Requests[i].payload, k)
      json == JSONParse(decryptedPayload.value)
      parsed == websocketDataSchema(json.value)
  IN IF methodNotAllowed(Requests[i]) \/ missingPayload(Requests[i]) THEN NoError
     ELSE IF ~decryptedPayload.ok THEN decryptedPayload.error
     ELSE IF ~json.ok THEN json.error
     ELSE IF ~parsed.ok THEN [name |-> parsed.error.name, message |-> ""]
     ELSE NoError

ThrownTable == [k \in Keys, i \in 1..Len(Requests) |-> Thrown(k, i)]

\* request i throws something other than a schema failure
InternalFailure(k, i) == ThrownTable[k, i].name \notin {"none", "ZodError"}

InternalServerError == JsonResponse("Internal server error", 500, <<>>, 500)

\* C20: whatever a request throws before the upgrade, unless it is a schema
\* failure, the response is the same: status 500, error "Internal server
\* error", code 500, no issues, and nothing is upgraded; and the request that
\* follows such a response is answered as it is at any other time.
C20_FailuresLookAlike ==
  [][\A i \in 1..Len(Requests) :
       Fetched(i) =>
         /\ InternalFailure(SIGNATURE_KEY, i) =>
              /\ response' = InternalServerError
              /\ NothingUpgraded
         /\ response = InternalServerError =>
              /\ response' = FetchTable[SIGNATURE_KEY, i].response
              /\ FetchTable[SIGNATURE_KEY, i].upgrade =>
                   \E s \in Sessions : ~Created(s) /\ Created(s)'
     ]_vars

\* the response to a request that could not be decrypted
C20_Witness ==
  /\ lastRequest # 0
  /\ InternalFailure(SIGNATURE_KEY, lastRequest)
  /\ ThrownTable[SIGNATURE_KEY, lastRequest].name = "OperationError"
  /\ response = InternalServerError

\* ------------------------------------------------------------------ what a session carries

\* a descriptor as the spec requires it of a session: the guest identifier a
\* positive integer, the guest type qemu or lxc, host and node hostnames
ValidDescriptor(d) ==
  /\ d["vmid"].t = "number" /\ d["vmid"].den = 1 /\ d["vmid"].num > 0
  /\ d["type"] \in {Str(<<"q", "e", "m", "u">>), Str(<<"l", "x", "c">>)}
  /\ d["host"].t = "string" /\ IsHostname(d["host"].s)
  /\ d["node"].t = "string" /\ IsHostname(d["node"].s)

\* the payload of request i decrypts, parses as JSON and passes the schema
PayloadAccepted(k, i) ==
  LET decryptedPayload == decryptPayload(Requests[i].payload, k)
      json == JSONParse(decryptedPayload.value)
  IN /\ Requests[i].hasPayload
     /\ decryptedPayload.ok
     /\ json.ok
     /\ websocketDataSchema(json.value).ok

AcceptedTable == [k \in Keys, i \in 1..Len(Requests) |-> PayloadAccepted(k, i)]

\* the descriptor that request i gives its session is valid, with vmid g
CarriesValid(k, i, g) ==
  /\ FetchTable[k, i].upgrade
  /\ ValidDescriptor(FetchTable[k, i].data)
  /\ FetchTable[k, i].data["vmid"].num = g

CarriedTable == [k \in Keys, i \in 1..Len(Requests), g \in Guests |-> CarriesValid(k, i, g)]

\* C21: a request is upgraded only if its payload decrypted, parsed as JSON
\* and passed the schema; every session there is carries a descriptor with a
\* positive integer vmid, a type of qemu or lxc and hostnames for host and
\* node, and every key of the map with an entry is the vmid of such a session.
C21_UpgradeOnlyAfterValidation ==
  [][/\ \A i \in 1..Len(Requests) :
          (Fetched(i) /\ \E s \in Sessions : client[s] = "none" /\ client'[s] # "none")
          => AcceptedTable[SIGNATURE_KEY, i]
     /\ \A s \in Sessions :
          client'[s] # "none" =>
            /\ data'[s].vmid \in Guests
            /\ CarriedTable[SIGNATURE_KEY, data'[s].request, data'[s].vmid]
     /\ \A g \in DOMAIN sockets :
          sockets'[g] # NoSocket =>
            \E s \in Sessions :
              /\ client'[s] # "none"
              /\ data'[s].vmid = g
              /\ CarriedTable[SIGNATURE_KEY, data'[s].request, g]
    ]_vars

\* a session of an lxc guest whose upstream connection is in the map
C21_Witness ==
  \E s \in Sessions :
    /\ Created(s)
    /\ wsData(s)["type"] = Str(<<"l", "x", "c">>)
    /\ sockets[vmid(s)] = s

\* ------------------------------------------------------------------ cancellation

\* the events after which the relay closes the client of session s: its
\* upstream connection fails or closes, or a frame of its client finds no
\* entry in the map
ClientClosingEvent(s) ==
  \/ pws[s] # "errored" /\ pws'[s] = "errored"
  \/ pws[s] # "closed" /\ pws'[s] = "closed"
  \/ recvClient'[s] # recvClient[s] /\ sockets[vmid(s)] = NoSocket

\* the relay closes the upstream connection of session s
RelayClosesUpstream(s) == pwsClosed[s] = NoClose /\ pwsClosed'[s] # NoClose

\* the relay closes the client connection of session s
RelayClosesClient(s) == client[s] = "open" /\ wsClosed'[s].by = "relay"

\* C22: the relay closes the client connection of a session only when the
\* upstream connection of the session fails or closes or a frame of its client
\* finds no upstream connection in the map; it closes the upstream connection
\* of a session only when the client connection of the session closes; and in
\* a step that is no event of a session, a Connecting session stays Connecting
\* and an Active session stays Active.
C22_OnlyClosesCancel ==
  [][\A s \in Sessions :
       /\ RelayClosesClient(s) => ClientClosingEvent(s)
       /\ RelayClosesUpstream(s) => (client[s] = "open" /\ client'[s] = "closed")
       /\ (Created(s) /\ ~EventOf(s)) =>
            /\ Connecting(s) => Connecting(s)'
            /\ Active(s) => Active(s)'
    ]_vars

\* ------------------------------------------------------------------ startup

\* C23: a relay started without SIGNATURE_KEY does not serve: it handles no
\* request and returns no response.
C23_NoServingWithoutKey ==
  env = "unset" => (lastRequest = 0 /\ response = NoResponse)

\* ------------------------------------------------------------------ the map and the connections

\* the upstream connection of session s has opened and has not closed
OpenedNotClosed(s) == pws[s] \in {"open", "errored", "closing"}

\* C24: every connection in the map is an upstream connection that has opened
\* and has not closed, of a session whose client connection is open; a
\* session whose client connection has closed has no entry in the map.
C24_MapHoldsLiveSessions ==
  /\ \A g \in Guests :
       sockets[g] # NoSocket =>
         /\ OpenedNotClosed(sockets[g])
         /\ client[sockets[g]] = "open"
  /\ \A s \in Sessions :
       client[s] = "closed" => \A g \in Guests : sockets[g] # s

\* ------------------------------------------------------------------ sending to a connection that is gone

\* the message listener of pws s runs: it calls ws.send on the client of s
SendsToClient(s) == recvUp'[s] # recvUp[s]

\* the message handler of session s runs and finds upstream connection t in
\* the map: it calls socket.send on t
SendsToUpstream(s, t) ==
  /\ recvClient'[s] # recvClient[s]
  /\ sockets[vmid(s)] = t

\* C25: the relay sends no frame to a client connection that has closed and
\* no frame to an upstream connection that has been closed.
C25_NoSendToClosed ==
  [][/\ \A s \in Sessions : SendsToClient(s) => client[s] # "closed"
     /\ \A s, t \in Sessions :
          SendsToUpstream(s, t) => pws[t] \notin {"closing", "closed"}
    ]_vars

====
